---------------------------- MODULE Spec2Model ----------------------------
(***************************************************************************)
(* AIgram backend (src/main.py, src/schemas.py): the bootstrap seeder and  *)
(* the HTTP handlers, run by concurrent request workers against one shared *)
(* document store.  Every call on the store is one atomic step of the      *)
(* worker that makes it; the code between two calls belongs to the step of *)
(* the call that follows it.                                               *)
(***************************************************************************)
EXTENDS Integers, Sequences, FiniteSets, TLC

\* ------------------------------------------------------------------ bounds
NumProcs == 2            \* request workers that may overlap
MaxRequests == 2         \* requests started in one behaviour of Spec
MaxOverlapCount == 1     \* Spec: character_count is drawn from 0..MaxOverlapCount
MaxOverlapPosts == 1     \* Spec: posts_per_character from 0..MaxOverlapPosts
MaxSeqRequests == 2      \* requests started in one behaviour of SpecSeq
MaxCharacterCount == 2   \* SpecSeq: character_count from 0..MaxCharacterCount
MaxPostsPerCharacter == 2 \* SpecSeq: posts_per_character from 0..MaxPostsPerCharacter
OidLen == 2              \* hex digits of an ObjectId's string form
FirstOid == 10           \* the first ObjectId the store hands out

\* ------------------------------------------------------- program constants
SeedThreshold == 5
DefaultFeedLimit == 25
DefaultStoryLimit == 20
DefaultCharLimit == 50

Procs == 1..NumProcs

VARIABLES
    db,          \* database.db: "unset" (None) or "connected"
    character,   \* db["character"]: documents in insertion order
    post,        \* db["post"]
    story,       \* db["story"]
    nextOid,     \* the next ObjectId the store assigns
    clock,       \* the value the next _now() returns
    pc,          \* each worker's position in its handler
    local,       \* each worker's arguments and local variables
    resp,        \* each worker's HTTP response, once pc = "done"
    before,      \* the store as it was when the worker's request began
    likes,       \* per post id: like_count at creation, increments applied
    started      \* requests started so far

vars == <<db, character, post, story, nextOid, clock, pc, local, resp,
          before, likes, started>>

store == <<character, post, story>>

\* ---------------------------------------------------------------- ObjectId
HexDigits == <<"0","1","2","3","4","5","6","7","8","9","a","b","c","d","e","f">>
UpperDigits == <<"0","1","2","3","4","5","6","7","8","9","A","B","C","D","E","F">>

RECURSIVE Pow16(_)
Pow16(n) == IF n = 0 THEN 1 ELSE 16 * Pow16(n - 1)

\* str(ObjectId): OidLen lower-case hex digits, most significant first
OidStr(oid) ==
    [i \in 1..OidLen |-> HexDigits[((oid \div Pow16(OidLen - i)) % 16) + 1]]

\* the value of one hex digit, -1 for any other character
HexVal(ch) ==
    IF \E d \in 1..16 : HexDigits[d] = ch
    THEN (CHOOSE d \in 1..16 : HexDigits[d] = ch) - 1
    ELSE IF \E d \in 1..16 : UpperDigits[d] = ch
    THEN (CHOOSE d \in 1..16 : UpperDigits[d] = ch) - 1
    ELSE -1

\* ObjectId.is_valid(s) for a str: exactly OidLen hex digits
OidValidLength(s) == Len(s) = OidLen
OidValid(s) == Len(s) = OidLen /\ \A i \in 1..Len(s) : HexVal(s[i]) >= 0

RECURSIVE OidNum(_)
OidNum(s) == IF s = <<>> THEN 0
             ELSE 16 * OidNum(SubSeq(s, 1, Len(s) - 1)) + HexVal(s[Len(s)])

\* ObjectId(s): the id a valid string denotes (either letter case)
ObjectId(s) == OidNum(s)

\* ------------------------------------------------------------------ schemas
Lower(first) == CASE first = "Ava" -> "ava" [] first = "Ada" -> "ada"

\* the random draws of one Character (main.py:56-66), the two ends of each range
AvaDraw ==
    [first |-> "Ava", last |-> "Wilde", suffix |-> 100, adj |-> "virtual",
     img |-> 1, interests |-> {"travel", "food"}, followers |-> 100,
     following |-> 50]
AdaDraw ==
    [first |-> "Ada", last |-> "Brown", suffix |-> 999, adj |-> "cozy",
     img |-> 70, interests |-> {"art", "tech", "pets", "memes"},
     followers |-> 9000, following |-> 900]
CharDraws == {AvaDraw, AdaDraw}

\* Character(...) of main.py:58-66 from one draw
Character(d) ==
    [ username   |-> <<Lower(d.first), d.suffix>>,
      name       |-> <<d.first, d.last>>,
      bio        |-> <<"Exploring", d.adj, "worlds">>,
      avatar_url |-> <<"https://i.pravatar.cc/150?img=", d.img>>,
      interests  |-> d.interests,
      followers  |-> d.followers,
      following  |-> d.following ]

\* the random draws of one Post (main.py:74-83)
LowDraw ==
    [n |-> 1, caption |-> "Sunset vibes", tag |-> "travel",
     like_count |-> 10, comment_count |-> 0]
HighDraw ==
    [n |-> 9999, caption |-> "Behind the scenes", tag |-> "memes",
     like_count |-> 5000, comment_count |-> 200]
PostDraws == {LowDraw}

\* Post(...) of main.py:75-84 for the character document c
Post(c, d) ==
    [ author_type   |-> "character",
      author_id     |-> OidStr(c._id),
      type          |-> "image",
      media_url     |-> <<"https://picsum.photos/seed/", c.username, d.n>>,
      caption       |-> <<d.caption, d.tag>>,
      hashtags      |-> <<d.tag, d.tag>>,
      like_count    |-> d.like_count,
      comment_count |-> d.comment_count ]

\* isoformat() of a time
Iso(t) == <<"iso", t>>

\* choice([... , None]) of main.py:93
Overlays == {"Out and about"}

\* Story(...) of main.py:89-95 for the character document c
Story(c, overlay, now) ==
    [ author_type  |-> "character",
      author_id    |-> OidStr(c._id),
      media_url    |-> <<"https://picsum.photos/seed/story-", c.username>>,
      text_overlay |-> overlay,
      expires_at   |-> Iso(now + 24) ]

\* ------------------------------------------------------- persistence adapter
\* create_document: the record as a mapping, stamped created_at / updated_at,
\* under the id the store assigns
Stamp(rec, oid, now) ==
    rec @@ [_id |-> oid, created_at |-> now, updated_at |-> now]

\* cursor.limit(n): 0 means no limit
Limit(docs, n) ==
    IF n = 0 \/ n >= Len(docs) THEN docs ELSE SubSeq(docs, 1, n)

\* cursor.sort("created_at", -1): newest first, equal stamps in stored order
RECURSIVE SortDesc(_)
SortDesc(docs) ==
    IF docs = <<>> THEN <<>>
    ELSE LET top == CHOOSE i \in 1..Len(docs) :
                       /\ \A j \in 1..Len(docs) :
                             docs[j].created_at <= docs[i].created_at
                       /\ \A j \in 1..(i - 1) :
                             docs[j].created_at < docs[i].created_at
             rest == [k \in 1..(Len(docs) - 1) |->
                        IF k < top THEN docs[k] ELSE docs[k + 1]]
         IN  <<docs[top]>> \o SortDesc(rest)

\* ------------------------------------------------------------ worker state
Idle ==
    [ op |-> "none", character_count |-> 0, posts_per_character |-> 0,
      limit |-> 0, post_id |-> <<>>,
      existing |-> 0, n_posts |-> 0,
      created_chars |-> 0, created_posts |-> 0, created_stories |-> 0,
      characters |-> <<>>, ci |-> 0, pj |-> 0, items |-> <<>> ]

NoResp == [status |-> 0, detail |-> <<>>, body |-> <<>>]

\* an HTTPException, and the response FastAPI makes of it
HTTPException(code, text) == [status |-> code, detail |-> text, body |-> <<>>]
\* str(e) of an HTTPException e
StrHTTPException(e) == <<e.status, ": ">> \o e.detail
\* the response of a handler that raised something else
InternalServerError == HTTPException(500, <<"Internal Server Error">>)
\* str(e) of the TypeError that db[...] raises when db is None
NoneTypeText == <<"'NoneType' object is not subscriptable">>
\* str(e) of bson.errors.InvalidId
InvalidIdText(s) == <<s, " is not a valid ObjectId">>

Ok(b) == [status |-> 200, detail |-> <<>>, body |-> b]

\* BootstrapResponse of main.py:24-27
BootstrapResponse(c, p, s) == [characters |-> c, posts |-> p, stories |-> s]

\* jsonable_encoder of one document: the id as its string, times in ISO form
JsonableEncoder(doc) ==
    [doc EXCEPT !._id = OidStr(@), !.created_at = Iso(@), !.updated_at = Iso(@)]
EncodeAll(docs) == [i \in 1..Len(docs) |-> JsonableEncoder(docs[i])]

\* ---------------------------------------------------------------- initial
\* A store that earlier runs left seeded: SeedThreshold characters, a post and a
\* story of a character, and a post and a story whose author is a User.
UserOid == FirstOid + SeedThreshold
SeededCharacters ==
    [i \in 1..SeedThreshold |->
        Stamp(Character(IF i % 2 = 1 THEN AvaDraw ELSE AdaDraw),
              FirstOid + i - 1, i)]
ByUser(rec) == [rec EXCEPT !.author_type = "user", !.author_id = OidStr(UserOid)]
SeededPosts ==
    << Stamp(Post(SeededCharacters[1], LowDraw),
             UserOid + 1, SeedThreshold + 1),
       Stamp(ByUser(Post(SeededCharacters[1], HighDraw)),
             UserOid + 2, SeedThreshold + 2) >>
SeededStories ==
    << Stamp(Story(SeededCharacters[2], "None", SeedThreshold + 3),
             UserOid + 3, SeedThreshold + 3),
       Stamp(ByUser(Story(SeededCharacters[2], "Out and about",
                          SeedThreshold + 4)),
             UserOid + 4, SeedThreshold + 4) >>

\* the likes bookkeeping of a list of freshly created posts
NewLikes(posts) ==
    [oid \in {posts[i]._id : i \in 1..Len(posts)} |->
        [created |-> (CHOOSE x \in {posts[i] : i \in 1..Len(posts)} :
                         x._id = oid).like_count,
         applied |-> 0]]

Init ==
    /\ \/ /\ db \in {"unset", "connected"}
          /\ character = <<>> /\ post = <<>> /\ story = <<>>
          /\ nextOid = FirstOid
          /\ clock = 1
       \/ /\ db = "connected"
          /\ character = SeededCharacters
          /\ post = SeededPosts
          /\ story = SeededStories
          /\ nextOid = UserOid + 5
          /\ clock = SeedThreshold + 5
    /\ likes = NewLikes(post)
    /\ pc = [p \in Procs |-> "idle"]
    /\ local = [p \in Procs |-> Idle]
    /\ resp = [p \in Procs |-> NoResp]
    /\ before = [p \in Procs |-> <<>>]
    /\ started = 0

\* a request arrives and the lowest free worker takes it
Arrive(p, label, l) ==
    /\ pc[p] = "idle"
    /\ \A q \in 1..(p - 1) : pc[q] # "idle"
    /\ started' = started + 1
    /\ local' = [local EXCEPT ![p] = l]
    /\ pc' = [pc EXCEPT ![p] = label]
    /\ before' = [before EXCEPT ![p] = store]
    /\ UNCHANGED <<db, character, post, story, nextOid, clock, resp, likes>>

Goto(p, label) == pc' = [pc EXCEPT ![p] = label]
Respond(p, r) == /\ resp' = [resp EXCEPT ![p] = r]
                 /\ pc' = [pc EXCEPT ![p] = "done"]
Ghosts == <<before, started>>

\* ------------------------------------------------------- ensure_bootstrap
\* a call ensure_bootstrap(n, k); GET /api/bootstrap is the call with the
\* defaults
CallBootstrap(p, maxN, maxK) ==
    \E n \in 0..maxN, k \in 0..maxK :
        Arrive(p, "b_count",
               [Idle EXCEPT !.op = "bootstrap", !.character_count = n,
                            !.posts_per_character = k])

\* the threshold test of main.py:43
AlreadySeededStrict(existing) == existing > SeedThreshold
AlreadySeededAny(existing) == existing >= 1
AlreadySeeded(existing) == existing >= SeedThreshold

\* main.py:55: whether range(character_count) has another iteration
MoreCharactersOffByOne(created, character_count) == created <= character_count
MoreCharacters(created, character_count) == created < character_count

\* where the seeder goes for the character at index i of its list
AtCharacter(l, i) ==
    IF i > Len(l.characters) THEN "b_return"
    ELSE IF l.posts_per_character > 0 THEN "b_post" ELSE "b_story"

\* main.py:35-43: the handle check, the count and the threshold
BootstrapCount(p) ==
    /\ pc[p] = "b_count"
    /\ IF db = "unset"
       THEN /\ Respond(p, HTTPException(500, <<"Database not configured">>))
            /\ UNCHANGED local
       ELSE LET existing == Len(character) IN
            /\ local' = [local EXCEPT ![p].existing = existing]
            /\ Goto(p, IF AlreadySeeded(existing) THEN "b_cnt_post"
                       ELSE IF MoreCharacters(0, local[p].character_count)
                       THEN "b_char" ELSE "b_find")
            /\ UNCHANGED resp
    /\ UNCHANGED <<db, character, post, story, nextOid, clock, likes, Ghosts>>

\* main.py:44: db["post"].count_documents({})
BootstrapCountPosts(p) ==
    /\ pc[p] = "b_cnt_post"
    /\ local' = [local EXCEPT ![p].n_posts = Len(post)]
    /\ Goto(p, "b_cnt_story")
    /\ UNCHANGED <<db, character, post, story, nextOid, clock, resp, likes,
                   Ghosts>>

\* main.py:44: db["story"].count_documents({}) and the return
BootstrapCountStories(p) ==
    /\ pc[p] = "b_cnt_story"
    /\ Respond(p, Ok(BootstrapResponse(local[p].existing, local[p].n_posts,
                                       Len(story))))
    /\ UNCHANGED <<db, character, post, story, nextOid, clock, local, likes,
                   Ghosts>>

\* main.py:55-68: one iteration of the character loop
BootstrapCharacter(p) ==
    /\ pc[p] = "b_char"
    /\ \E d \in CharDraws :
          character' = Append(character, Stamp(Character(d), nextOid, clock))
    /\ nextOid' = nextOid + 1
    /\ clock' = clock + 1
    /\ local' = [local EXCEPT ![p].created_chars = @ + 1]
    /\ Goto(p, IF MoreCharacters(local[p].created_chars + 1,
                                 local[p].character_count)
               THEN "b_char" ELSE "b_find")
    /\ UNCHANGED <<db, post, story, resp, likes, Ghosts>>

\* main.py:71: list(db["character"].find({}).limit(character_count))
FindCharacters(docs, character_count) == Limit(docs, character_count)

\* main.py:71-72: the characters are read back and the outer loop begins
BootstrapFind(p) ==
    /\ pc[p] = "b_find"
    /\ LET l == [local[p] EXCEPT
                   !.characters = FindCharacters(character,
                                                 local[p].character_count),
                   !.ci = 1, !.pj = 0]
       IN  /\ local' = [local EXCEPT ![p] = l]
           /\ Goto(p, AtCharacter(l, 1))
    /\ UNCHANGED <<db, character, post, story, nextOid, clock, resp, likes,
                   Ghosts>>

\* main.py:73-86: one iteration of the post loop
BootstrapPost(p) ==
    /\ pc[p] = "b_post"
    /\ LET c == local[p].characters[local[p].ci] IN
       \E d \in PostDraws :
          LET doc == Stamp(Post(c, d), nextOid, clock) IN
          /\ post' = Append(post, doc)
          /\ likes' = likes @@ NewLikes(<<doc>>)
    /\ nextOid' = nextOid + 1
    /\ clock' = clock + 1
    /\ local' = [local EXCEPT ![p].created_posts = @ + 1, ![p].pj = @ + 1]
    /\ Goto(p, IF local[p].pj + 1 < local[p].posts_per_character
               THEN "b_post" ELSE "b_story")
    /\ UNCHANGED <<db, character, story, resp, Ghosts>>

\* main.py:88-97: the coin, the story when it shows 1, and the next character
BootstrapStory(p) ==
    /\ pc[p] = "b_story"
    /\ LET c == local[p].characters[local[p].ci]
           l == [local[p] EXCEPT !.ci = @ + 1, !.pj = 0]
       IN
       \/ /\ UNCHANGED <<story, nextOid, clock>>
          /\ local' = [local EXCEPT ![p] = l]
          /\ Goto(p, AtCharacter(l, l.ci))
       \/ /\ \E o \in Overlays :
                story' = Append(story, Stamp(Story(c, o, clock), nextOid,
                                             clock + 1))
          /\ nextOid' = nextOid + 1
          /\ clock' = clock + 2
          /\ local' = [local EXCEPT ![p] =
                          [l EXCEPT !.created_stories = @ + 1]]
          /\ Goto(p, AtCharacter(l, l.ci))
    /\ UNCHANGED <<db, character, post, resp, likes, Ghosts>>

\* main.py:99-103
BootstrapReturn(p) ==
    /\ pc[p] = "b_return"
    /\ Respond(p, Ok(BootstrapResponse(local[p].created_chars,
                                       local[p].created_posts,
                                       local[p].created_stories)))
    /\ UNCHANGED <<db, character, post, story, nextOid, clock, local, likes,
                   Ghosts>>

\* ------------------------------------------------------------ hydration
\* char_map.get(aid) over {str(c["_id"]): c for c in find({})}: the last
\* character under that key, or none
HasAuthor(chars, aid) == \E i \in 1..Len(chars) : OidStr(chars[i]._id) = aid
AuthorOfFirst(chars, aid) == chars[1]
AuthorOf(chars, aid) ==
    chars[CHOOSE i \in 1..Len(chars) :
             /\ OidStr(chars[i]._id) = aid
             /\ \A j \in (i + 1)..Len(chars) : OidStr(chars[j]._id) # aid]

\* the author summary of main.py:129-133 and :146-150
AuthorSummary(c) ==
    [username |-> c.username, name |-> c.name, avatar_url |-> c.avatar_url]

\* main.py:125-133: one item, with its author when the map has one
Hydrate(item, chars) ==
    IF HasAuthor(chars, item.author_id)
    THEN item @@ [author |-> AuthorSummary(AuthorOf(chars, item.author_id))]
    ELSE item

HydrateAll(items, chars) == [i \in 1..Len(items) |-> Hydrate(items[i], chars)]

\* find({}).sort("created_at", -1).limit(limit)
Newest(docs, limit) == Limit(SortDesc(docs), limit)

\* ------------------------------------------------------------ GET /api/feed
CallFeed(p) ==
    \E n \in {0, 1, DefaultFeedLimit} :
        Arrive(p, "f_posts", [Idle EXCEPT !.op = "feed", !.limit = n])

\* main.py:119: the posts query; the TypeError of a None handle is caught at
\* main.py:135
FeedPosts(p) ==
    /\ pc[p] = "f_posts"
    /\ IF db = "unset"
       THEN /\ Respond(p, HTTPException(500, NoneTypeText))
            /\ UNCHANGED local
       ELSE /\ local' = [local EXCEPT ![p].items = Newest(post, local[p].limit)]
            /\ Goto(p, "f_in")
            /\ UNCHANGED resp
    /\ UNCHANGED <<db, character, post, story, nextOid, clock, likes, Ghosts>>

\* main.py:122: a query for the ids in [None], whose result is not used
FeedIn(p) ==
    /\ pc[p] = "f_in"
    /\ Goto(p, "f_map")
    /\ UNCHANGED <<db, character, post, story, nextOid, clock, local, resp,
                   likes, Ghosts>>

\* main.py:124-134: the character scan, the join and the response
FeedMap(p) ==
    /\ pc[p] = "f_map"
    /\ Respond(p, Ok(EncodeAll(HydrateAll(local[p].items, character))))
    /\ UNCHANGED <<db, character, post, story, nextOid, clock, local, likes,
                   Ghosts>>

\* --------------------------------------------------------- GET /api/stories
CallStories(p) ==
    \E n \in {0, 1, DefaultStoryLimit} :
        Arrive(p, "s_query", [Idle EXCEPT !.op = "stories", !.limit = n])

\* main.py:141: nothing catches the TypeError of a None handle
StoriesQuery(p) ==
    /\ pc[p] = "s_query"
    /\ IF db = "unset"
       THEN /\ Respond(p, InternalServerError)
            /\ UNCHANGED local
       ELSE /\ local' = [local EXCEPT ![p].items = Newest(story, local[p].limit)]
            /\ Goto(p, "s_map")
            /\ UNCHANGED resp
    /\ UNCHANGED <<db, character, post, story, nextOid, clock, likes, Ghosts>>

\* main.py:142-151
StoriesMap(p) ==
    /\ pc[p] = "s_map"
    /\ Respond(p, Ok(EncodeAll(HydrateAll(local[p].items, character))))
    /\ UNCHANGED <<db, character, post, story, nextOid, clock, local, likes,
                   Ghosts>>

\* ------------------------------------------------------ GET /api/characters
CallCharacters(p) ==
    \E n \in {0, 1, DefaultCharLimit} :
        Arrive(p, "c_query", [Idle EXCEPT !.op = "characters", !.limit = n])

\* main.py:156-157
CharactersQuery(p) ==
    /\ pc[p] = "c_query"
    /\ IF db = "unset"
       THEN Respond(p, InternalServerError)
       ELSE Respond(p, Ok(EncodeAll(Limit(character, local[p].limit))))
    /\ UNCHANGED <<db, character, post, story, nextOid, clock, local, likes,
                   Ghosts>>

\* ------------------------------------------------- POST /api/like/{post_id}
Upper(s) == [i \in 1..Len(s) |-> UpperDigits[HexVal(s[i]) + 1]]

\* the post_id strings a request may carry: the ids of the posts, of the first
\* character and the next unused id, in either letter case, and strings that
\* are no id (a wrong character, too short, too long)
PostIdInputs ==
    LET ids == {post[i]._id : i \in 1..Len(post)}
               \cup {character[i]._id : i \in 1..Len(character) \cap {1}}
               \cup {nextOid}
    IN  {OidStr(n) : n \in ids} \cup {Upper(OidStr(n)) : n \in ids}
        \cup { [i \in 1..OidLen |-> "z"],
               [i \in 1..(OidLen - 1) |-> "0"],
               [i \in 1..(OidLen + 1) |-> "0"] }

CallLike(p) ==
    \E s \in PostIdInputs :
        Arrive(p, "l_update", [Idle EXCEPT !.op = "like", !.post_id = s])

\* {"$inc": {"like_count": 1}, "$set": {"updated_at": _now()}} on one document
IncLikeTwice(doc, now) == [doc EXCEPT !.like_count = @ + 2, !.updated_at = now]
IncLikeSet(doc, now) == [doc EXCEPT !.like_count = 1, !.updated_at = now]
IncLike(doc, now) == [doc EXCEPT !.like_count = @ + 1, !.updated_at = now]

\* the index of the document update_one / find_one matches, 0 for none
Match(docs, oid) ==
    IF \E i \in 1..Len(docs) : docs[i]._id = oid
    THEN CHOOSE i \in 1..Len(docs) :
            docs[i]._id = oid /\ \A j \in 1..(i - 1) : docs[j]._id # oid
    ELSE 0

\* main.py:166 raised inside the try of main.py:163 and caught at main.py:169
NotFoundResponse ==
    HTTPException(400, StrHTTPException(HTTPException(404, <<"Post not found">>)))

\* main.py:164-166, 169-170: the handle, the parse, and the update, which the
\* store applies to the matched document in one step
LikeUpdate(p) ==
    /\ pc[p] = "l_update"
    /\ IF db = "unset"
       THEN /\ Respond(p, HTTPException(400, NoneTypeText))
            /\ UNCHANGED <<post, clock, likes>>
       ELSE IF ~OidValid(local[p].post_id)
       THEN /\ Respond(p, HTTPException(400, InvalidIdText(local[p].post_id)))
            /\ UNCHANGED <<post, clock, likes>>
       ELSE LET oid == ObjectId(local[p].post_id)
                k == Match(post, oid)
            IN  IF k = 0
                THEN /\ Respond(p, NotFoundResponse)
                     /\ UNCHANGED <<post, clock, likes>>
                ELSE /\ post' = [post EXCEPT ![k] = IncLike(@, clock)]
                     /\ clock' = clock + 1
                     /\ likes' = [likes EXCEPT ![oid].applied = @ + 1]
                     /\ Goto(p, "l_find")
                     /\ UNCHANGED resp
    /\ UNCHANGED <<db, character, story, nextOid, local, Ghosts>>

\* main.py:167-168: the post is read back and returned
LikeFind(p) ==
    /\ pc[p] = "l_find"
    /\ LET k == Match(post, ObjectId(local[p].post_id)) IN
       Respond(p, Ok(IF k = 0 THEN <<>> ELSE JsonableEncoder(post[k])))
    /\ UNCHANGED <<db, character, post, story, nextOid, clock, local, likes,
                   Ghosts>>

\* ------------------------------------------------------------------- next
\* the response is sent and the worker is free again
Finish(p) ==
    /\ pc[p] = "done"
    /\ pc' = [pc EXCEPT ![p] = "idle"]
    /\ local' = [local EXCEPT ![p] = Idle]
    /\ resp' = [resp EXCEPT ![p] = NoResp]
    /\ before' = [before EXCEPT ![p] = <<>>]
    /\ UNCHANGED <<db, character, post, story, nextOid, clock, likes, started>>

\* one step of the handler worker p runs
Step(p) ==
    \/ BootstrapCount(p)
    \/ BootstrapCountPosts(p)
    \/ BootstrapCountStories(p)
    \/ BootstrapCharacter(p)
    \/ BootstrapFind(p)
    \/ BootstrapPost(p)
    \/ BootstrapStory(p)
    \/ BootstrapReturn(p)
    \/ FeedPosts(p)
    \/ FeedIn(p)
    \/ FeedMap(p)
    \/ StoriesQuery(p)
    \/ StoriesMap(p)
    \/ CharactersQuery(p)
    \/ LikeUpdate(p)
    \/ LikeFind(p)
    \/ Finish(p)

\* a request of any kind arrives at worker p
Request(p, maxN, maxK) ==
    \/ CallBootstrap(p, maxN, maxK)
    \/ CallFeed(p)
    \/ CallStories(p)
    \/ CallCharacters(p)
    \/ CallLike(p)

\* requests may overlap: a new one arrives while others are being handled
Next ==
    \E p \in Procs :
        \/ started < MaxRequests /\ Request(p, MaxOverlapCount, MaxOverlapPosts)
        \/ Step(p)

Spec == Init /\ [][Next]_vars

\* requests never overlap: one arrives only when every worker is free
NextSeq ==
    \E p \in Procs :
        \/ /\ started < MaxSeqRequests
           /\ \A q \in Procs : pc[q] = "idle"
           /\ Request(p, MaxCharacterCount, MaxPostsPerCharacter)
        \/ Step(p)

SpecSeq == Init /\ [][NextSeq]_vars

\* ------------------------------------------------------------------ claims
EmptyStore == <<<<>>, <<>>, <<>>>>
Done(p, op) == pc[p] = "done" /\ local[p].op = op /\ db = "connected"
Counts == BootstrapResponse(Len(character), Len(post), Len(story))

\* C1: a seed that began on an empty store and ran alone leaves exactly
\* character_count characters, posts_per_character * character_count posts and
\* at most character_count stories, and returns the numbers it created.
C1_SeedFromEmpty ==
    \A p \in Procs :
        (Done(p, "bootstrap") /\ before[p] = EmptyStore) =>
            /\ Len(character) = local[p].character_count
            /\ Len(post) = local[p].posts_per_character * local[p].character_count
            /\ Len(story) \in 0..local[p].character_count
            /\ resp[p].status = 200
            /\ resp[p].body = Counts

C1_Witness ==
    \E p \in Procs :
        /\ Done(p, "bootstrap") /\ before[p] = EmptyStore
        /\ local[p].character_count = 2 /\ local[p].posts_per_character = 2
        /\ Len(character) = 2 /\ Len(post) = 4 /\ Len(story) = 1

\* C2: a seed that finds SeedThreshold or more characters inserts nothing,
\* leaves every record as it was and returns the store's current counts.
C2_ThresholdNoop ==
    \A p \in Procs :
        (Done(p, "bootstrap") /\ Len(before[p][1]) >= SeedThreshold) =>
            /\ store = before[p]
            /\ resp[p].status = 200
            /\ resp[p].body = Counts

C2_Witness ==
    \E p \in Procs :
        /\ Done(p, "bootstrap") /\ Len(before[p][1]) = SeedThreshold
        /\ local[p].character_count > 0 /\ local[p].posts_per_character > 0
        /\ resp[p].body = BootstrapResponse(SeedThreshold, 2, 2)

\* C3: in non-overlapping invocations from an empty store at most one seeds:
\* an invocation that finds records in the store creates none.
C3_SeedsOnce ==
    \A p \in Procs :
        (Done(p, "bootstrap") /\ before[p] # EmptyStore) => store = before[p]

HexChars == {"0","1","2","3","4","5","6","7","8","9","a","b","c","d","e","f",
             "A","B","C","D","E","F"}
WellFormed(s) == Len(s) = OidLen /\ \A i \in 1..Len(s) : s[i] \in HexChars

\* C5: a like with a well-formed id that matches no post answers 404 "Post not
\* found" and leaves the store as it was.
C5_NotFoundIs404 ==
    \A p \in Procs :
        (/\ Done(p, "like")
         /\ WellFormed(local[p].post_id)
         /\ \A i \in 1..Len(before[p][2]) :
               before[p][2][i]._id # ObjectId(local[p].post_id)) =>
            /\ resp[p].status = 404
            /\ resp[p].detail = <<"Post not found">>
            /\ store = before[p]

\* C6: with the handle unset every handler answers 500 "Database not
\* configured".
C6_UnsetHandleIs500 ==
    \A p \in Procs :
        (pc[p] = "done" /\ db = "unset") =>
            /\ resp[p].status = 500
            /\ resp[p].detail = <<"Database not configured">>

\* C7: every item of a feed or stories response whose author_id is the string
\* form of a stored character's id carries that character's username, name and
\* avatar_url as author; an item whose author_id is no character's id has no
\* author field; and the steps of both handlers leave the store as it is.
HydratedRight(item) ==
    IF \E i \in 1..Len(character) : OidStr(character[i]._id) = item.author_id
    THEN /\ "author" \in DOMAIN item
         /\ \E i \in 1..Len(character) :
               /\ OidStr(character[i]._id) = item.author_id
               /\ item.author = [username |-> character[i].username,
                                 name |-> character[i].name,
                                 avatar_url |-> character[i].avatar_url]
    ELSE "author" \notin DOMAIN item

C7_Hydration ==
    \A p \in Procs :
        /\ (pc[p] = "done" /\ local[p].op \in {"feed", "stories"}
            /\ resp[p].status = 200) =>
               \A i \in 1..Len(resp[p].body) : HydratedRight(resp[p].body[i])
        /\ (local[p].op \in {"feed", "stories"} /\ db = "connected"
            /\ \A q \in Procs \ {p} : pc[q] = "idle" /\ started = 1) =>
               store = before[p]

C7_Witness ==
    \E p \in Procs :
        /\ pc[p] = "done" /\ local[p].op = "feed" /\ resp[p].status = 200
        /\ Len(resp[p].body) = 2
        /\ "author" \in DOMAIN resp[p].body[2]
        /\ resp[p].body[2].author.username = <<"ava", 100>>
        /\ "author" \notin DOMAIN resp[p].body[1]
        /\ resp[p].body[1].author_id = OidStr(UserOid)

\* C8: however like requests on one post interleave with each other and with
\* other requests, no increment is lost: every post's like_count is the value
\* it was created with plus the number of likes applied to it.
C8_NoLostLike ==
    \A i \in 1..Len(post) :
        post[i].like_count =
            likes[post[i]._id].created + likes[post[i]._id].applied

C8_Witness ==
    /\ \A p \in Procs : pc[p] = "l_find" /\ ObjectId(local[p].post_id) = post[1]._id
    /\ likes[post[1]._id].applied = NumProcs
    /\ post[1].like_count = likes[post[1]._id].created + NumProcs

\* C9: two seeds that both passed the count check both seed: each creates and
\* reports its character_count characters, and the store holds them all.
PassedCheck(p) ==
    /\ Done(p, "bootstrap")
    /\ local[p].existing < SeedThreshold

C9_BothSeed ==
    \A p, q \in Procs :
        (p # q /\ PassedCheck(p) /\ PassedCheck(q)) =>
            /\ local[p].created_chars = local[p].character_count
            /\ resp[p].body.characters = local[p].character_count
            /\ Len(character) >= local[p].character_count
                                 + local[q].character_count

C9_Witness ==
    \E p, q \in Procs :
        /\ p # q /\ PassedCheck(p) /\ PassedCheck(q)
        /\ local[p].existing = 0 /\ local[q].existing = 0
        /\ local[p].character_count = 1 /\ local[q].character_count = 1
        /\ resp[p].body.characters = 1 /\ resp[q].body.characters = 1
        /\ Len(character) = 2

\* C10: a like whose post_id is no id of the store's type answers 400 with the
\* error text and changes no record.
C10_MalformedIs400 ==
    \A p \in Procs :
        (Done(p, "like") /\ ~WellFormed(local[p].post_id)) =>
            /\ resp[p].status = 400
            /\ resp[p].detail = InvalidIdText(local[p].post_id)
            /\ store = before[p]

C10_Witness ==
    \E p \in Procs :
        /\ Done(p, "like")
        /\ local[p].post_id = [i \in 1..OidLen |-> "z"]
        /\ resp[p].status = 400
        /\ Len(post) > 0
=============================================================================
